---- MODULE Spec2Model ----
(***************************************************************************)
(* Draw-to-select reader (src/src/App.js, second App component, lines      *)
(* 341-1045): the pointer gesture, the word geometry it resolves against,  *)
(* the highlight registry and the explanation fetches.                     *)
(*                                                                         *)
(* Conventions.                                                            *)
(*  - A nullable JavaScript value is an optional: Null (<<>>) or Some(v).  *)
(*  - A string is a sequence of one-character strings, so that join(' ')   *)
(*    and toLowerCase() are computed rather than assumed.                  *)
(*  - Coordinates are integers; the mean computed by findLineY is kept as  *)
(*    a reduced fraction <<numerator, denominator>>.                       *)
(*  - One action is one handler run to completion together with the React  *)
(*    re-render it causes (state setters are applied before the next       *)
(*    event is handled).                                                   *)
(*  - Spec is the running reader on its three documents.  GeometrySpec     *)
(*    applies findLineY and findIntersectingWords to every surface of a    *)
(*    few word boxes (variable probe), the rest of the state staying as    *)
(*    constructed.  RegistrySpec does the same for the list operation of   *)
(*    setHighlights.  ContentSpec is the reader with its "From URL" form:  *)
(*    pen gestures on the first line and fetchUrl.                         *)
(***************************************************************************)
EXTENDS Integers, Sequences, FiniteSets, Bags

VARIABLES
  content,                 \* useState content: the document on screen
  scrollTop,               \* scroll offset of the article surface
  highlights,              \* useState highlights: sequence of cards
  highlightedWordIndices,  \* useState: highlight id -> word indices
  line,                    \* useState line: Null or Some([startX, endX, y])
  isDrawing,               \* useState isDrawing
  lineYRef,                \* useRef lineYRef.current
  startXRef,               \* useRef startXRef.current
  fetches,                 \* bag of the ids of the fetchExplanation calls
                           \* that still await their response
  now,                     \* the clock read by Date.now()
  lastEvent,               \* the event just handled and what its handler did
  intersecting,            \* `intersecting` of the last handlePointerUp
  probe,                   \* a surface laid out freely and what findLineY and
                           \* findIntersectingWords return on it, or a
                           \* highlights list and what setHighlights makes of it
  contentLoading,          \* useState contentLoading
  contentError,            \* useState contentError: Null or Some(message)
  urlFetches               \* number of fetchUrl calls awaiting /api/fetch

vars == <<content, scrollTop, highlights, highlightedWordIndices, line,
          isDrawing, lineYRef, startXRef, fetches, now, lastEvent, intersecting,
          probe, contentLoading, contentError, urlFetches>>

----------------------------------------------------------------------------
(* Bounds *)

\* Date.now() ranges over 0..MaxTime
MaxTime == 1
\* at most MaxFetches explanation requests are outstanding at once
MaxFetches == 2

----------------------------------------------------------------------------
(* Optionals, fractions, strings *)

Null == <<>>
Some(v) == <<v>>
Val(o) == o[1]

Abs(n) == IF n < 0 THEN -n ELSE n

RECURSIVE Gcd(_, _)
Gcd(a, b) == IF b = 0 THEN a ELSE Gcd(b, a % b)

\* the number n/d (d > 0) as a reduced fraction
Frac(n, d) == LET g == Gcd(Abs(n), d) IN <<n \div g, d \div g>>

\* String.prototype.toLowerCase on one character of the documents
LowerChar(c) ==
  CASE c = "T" -> "t"
    [] c = "F" -> "f"
    [] OTHER -> c

\* String.prototype.toLowerCase
toLowerCase(s) == [k \in 1..Len(s) |-> LowerChar(s[k])]

\* variant: join('')
RECURSIVE JoinNoSeparator(_)
JoinNoSeparator(texts) ==
  IF texts = <<>> THEN <<>>
  ELSE Head(texts) \o JoinNoSeparator(Tail(texts))

\* Array.prototype.join(' ')
RECURSIVE JoinWithSpace(_)
JoinWithSpace(texts) ==
  IF texts = <<>> THEN <<>>
  ELSE IF Len(texts) = 1 THEN Head(texts)
  ELSE Head(texts) \o <<" ">> \o JoinWithSpace(Tail(texts))

----------------------------------------------------------------------------
(* The rendered surface *)

\* the content surface (articleRef) in viewport coordinates
articleRect == [left |-> 0, right |-> 200, top |-> 0, bottom |-> 200]

W(text, left, right, top, bottom) ==
  [text |-> text, left |-> left, right |-> right, top |-> top, bottom |-> bottom]

\* Word spans of the plain sample document, in document coordinates.  The
\* second paragraph starts with a blank, so split(/(\s+)/) yields an empty
\* first segment: a word span with no text and no width that still takes an
\* index.
SampleWords ==
  << W(<<"T","h","e">>,          0,   8,  90, 110),
     W(<<"q","u","i","c","k">>, 12,  50,  91, 110),
     W(<<"b","r","o","w","n">>, 55,  90,  90, 110),
     W(<<"f","o","x">>,         95, 118,  90, 110),
     W(<<"j","u","m","p","s">>, 125, 160, 90, 110),
     W(<<>>,                     0,   0, 120, 140),
     W(<<"F","o","x">>,          4,  30, 120, 140) >>

\* Word spans of the markdown document
MarkdownWords ==
  << W(<<"j","u","m","p","s">>,  5, 130,  90, 110) >>

\* the documents the content-acquisition side can deliver: the plain sample,
\* a markdown file of one word, and a markdown file that renders no word
\* (a lone thematic break)
SampleContent == [type |-> "sample", text |-> "sampleText", isMarkdown |-> FALSE]
Docs == { SampleContent,
          [type |-> "file", text |-> "jumps", isMarkdown |-> TRUE],
          [type |-> "file", text |-> "---",   isMarkdown |-> TRUE] }

\* the document fetchUrl loads: { type: 'url', text: data.content, ... }, with
\* no isMarkdown field, so rendered as plain text
UrlContent == [type |-> "url", text |-> "urlText", isMarkdown |-> FALSE]

\* the word spans the renderer produces for a document
DocWords(c) ==
  IF ~c.isMarkdown THEN SampleWords
  ELSE IF c.text = "jumps" THEN MarkdownWords
  ELSE <<>>

\* renderText gives a plain word span a ref at wordRefs.current[idx] and no
\* data-index attribute; renderMarkdownToHtml writes data-index="idx".
\* getBoundingClientRect is the span's box moved by the scroll offset.
Elements(c, scroll) ==
  [k \in 1..Len(DocWords(c)) |->
     LET w == DocWords(c)[k] IN
     [ dataIndex   |-> IF c.isMarkdown THEN Some(k - 1) ELSE Null,
       textContent |-> w.text,
       rect        |-> [ left |-> w.left, right |-> w.right,
                         top |-> w.top - scroll, bottom |-> w.bottom - scroll,
                         width |-> w.right - w.left ] ] ]

\* getWordData without the width filter
WordDataUnfiltered(els) ==
  [k \in 1..Len(els) |->
     [ index |-> IF els[k].dataIndex # Null THEN Val(els[k].dataIndex) ELSE k - 1,
       text  |-> els[k].textContent,
       rect  |-> els[k].rect ] ]

\* getWordData: one record per word element, zero-width elements dropped
getWordData(els) ==
  LET HasWidth(w) == w.rect.width > 0
  IN  SelectSeq(WordDataUnfiltered(els), HasWidth)

----------------------------------------------------------------------------
(* Line Locator and Span Resolver *)

\* Math.round((top + bottom) / 2) for integer top and bottom
CenterY(w) == (w.rect.top + w.rect.bottom + 1) \div 2

\* Math.round(centerY / 10) * 10
BucketKey(w) == ((CenterY(w) + 5) \div 10) * 10

Min(S) == CHOOSE m \in S : \A n \in S : m <= n

RECURSIVE Ascending(_)
Ascending(S) ==
  IF S = {} THEN <<>> ELSE <<Min(S)>> \o Ascending(S \ {Min(S)})

\* the distinct elements of a sequence in order of first appearance
RECURSIVE FirstAppearance(_)
FirstAppearance(s) ==
  IF s = <<>> THEN <<>>
  ELSE LET rest == FirstAppearance(SelectSeq(Tail(s), LAMBDA e : e # Head(s)))
       IN  <<Head(s)>> \o rest

\* bucket keys in order of first appearance in the snapshot
InsertionOrder(words) ==
  FirstAppearance([k \in DOMAIN words |-> BucketKey(words[k])])

\* variant: the buckets are visited in the order they were created
ObjectValuesAsInserted(words) ==
  FirstAppearance([k \in DOMAIN words |-> BucketKey(words[k])])

\* Object.values(lineGroups): own property order of a JavaScript object is
\* the integer-like keys (non-negative integers) ascending, then the other
\* string keys (here the negative numbers) in insertion order.
ObjectValuesOrder(words) ==
  LET keys == InsertionOrder(words)
  IN  Ascending({keys[k] : k \in {j \in DOMAIN keys : keys[j] >= 0}})
        \o SelectSeq(keys, LAMBDA key : key < 0)

RECURSIVE SumCenterY(_)
SumCenterY(group) ==
  IF group = <<>> THEN 0 ELSE CenterY(Head(group)) + SumCenterY(Tail(group))

\* lineGroups[key]
Group(words, key) == SelectSeq(words, LAMBDA w : BucketKey(w) = key)

\* variant: a bucket is represented by its first word's centerY
FirstCenterY(group) == Frac(CenterY(Head(group)), 1)

\* group.reduce((sum, w) => sum + w.centerY, 0) / group.length
AvgY(group) == Frac(SumCenterY(group), Len(group))

\* Math.abs(clientY - avgY)
Dist(clientY, avgY) == <<Abs(clientY * avgY[2] - avgY[1]), avgY[2]>>

\* a < b on fractions with positive denominators
FracLess(a, b) == a[1] * b[2] < b[1] * a[2]

\* the forEach over the buckets; closest is Null (closestDist = Infinity) or
\* Some([line, dist])
RECURSIVE ClosestLine(_, _, _, _)
ClosestLine(keys, words, clientY, closest) ==
  IF keys = <<>> THEN closest
  ELSE LET avgY == AvgY(Group(words, Head(keys)))
           dist == Dist(clientY, avgY)
           next == IF closest = Null \/ FracLess(dist, Val(closest).dist)
                   THEN Some([line |-> avgY, dist |-> dist])
                   ELSE closest
       IN  ClosestLine(Tail(keys), words, clientY, next)

\* variant: no early return for an empty snapshot, and the closest line
\* starts at 0
findLineYNoEarlyReturn(clientY, els) ==
  LET words == getWordData(els)
  IN  IF Len(words) = 0 THEN Some(Frac(0, 1))
      ELSE Some(Val(ClosestLine(ObjectValuesOrder(words), words, clientY, Null)).line)

\* findLineY: Null, or Some(mean centerY of the closest bucket)
findLineY(clientY, els) ==
  LET words == getWordData(els)
  IN  IF Len(words) = 0 THEN Null
      ELSE Some(Val(ClosestLine(ObjectValuesOrder(words), words, clientY, Null)).line)

\* variant: a word exactly 15 away is off the line
OffLineFrom15(w, lineY) ==
  Abs((w.rect.top + w.rect.bottom) * lineY[2] - 2 * lineY[1]) >= 30 * lineY[2]

\* variant: the line test is as narrow as the grouping, 5 either side
OffLineBeyond5(w, lineY) ==
  Abs((w.rect.top + w.rect.bottom) * lineY[2] - 2 * lineY[1]) > 10 * lineY[2]

\* variant: every word counts as on the line
OffLineNever(w, lineY) == FALSE

\* Math.abs(wordCenterY - lineY) > 15 with wordCenterY = (top + bottom) / 2
OffLine(w, lineY) ==
  Abs((w.rect.top + w.rect.bottom) * lineY[2] - 2 * lineY[1]) > 30 * lineY[2]

\* variant: a span without extent resolves nothing
findIntersectingWordsOfDrag(startX, endX, lineY, els) ==
  LET words == getWordData(els)
      minX  == IF startX <= endX THEN startX ELSE endX
      maxX  == IF startX >= endX THEN startX ELSE endX
      Hit(w) == /\ ~OffLine(w, lineY)
                /\ w.rect.right >= minX
                /\ w.rect.left <= maxX
  IN  IF minX = maxX THEN <<>> ELSE SelectSeq(words, Hit)

\* variant: the span is taken to run from startX on the left to endX
findIntersectingWordsLeftToRight(startX, endX, lineY, els) ==
  LET words == getWordData(els)
      Hit(w) == /\ ~OffLine(w, lineY)
                /\ w.rect.right >= startX
                /\ w.rect.left <= endX
  IN  SelectSeq(words, Hit)

\* findIntersectingWords
findIntersectingWords(startX, endX, lineY, els) ==
  LET words == getWordData(els)
      minX  == IF startX <= endX THEN startX ELSE endX
      maxX  == IF startX >= endX THEN startX ELSE endX
      Hit(w) == /\ ~OffLine(w, lineY)
                /\ w.rect.right >= minX
                /\ w.rect.left <= maxX
  IN  SelectSeq(words, Hit)

----------------------------------------------------------------------------
(* Highlight Registry helpers *)

\* variant: the duplicate test compares the texts as they are
IsAlreadyHighlightedExact(hs, selectedText) ==
  \E k \in DOMAIN hs : hs[k].text = selectedText

\* highlights.some(h => h.text.toLowerCase() === selectedText.toLowerCase())
IsAlreadyHighlighted(hs, selectedText) ==
  \E k \in DOMAIN hs : toLowerCase(hs[k].text) = toLowerCase(selectedText)

\* variant: Math.max in place of Math.min
RECURSIVE MaxOf(_)
MaxOf(wordIndices) ==
  IF Len(wordIndices) = 1 THEN Head(wordIndices)
  ELSE LET m == MaxOf(Tail(wordIndices))
       IN  IF Head(wordIndices) >= m THEN Head(wordIndices) ELSE m

\* Math.min(...wordIndices) for a non-empty array
RECURSIVE MinOf(_)
MinOf(wordIndices) ==
  IF Len(wordIndices) = 1 THEN Head(wordIndices)
  ELSE LET m == MinOf(Tail(wordIndices))
       IN  IF Head(wordIndices) <= m THEN Head(wordIndices) ELSE m

\* put h behind every element of the sorted prefix whose key is <= its own
RECURSIVE InsertStable(_, _)
InsertStable(sorted, h) ==
  IF sorted = <<>> THEN <<h>>
  ELSE IF Head(sorted).firstWordIndex <= h.firstWordIndex
       THEN <<Head(sorted)>> \o InsertStable(Tail(sorted), h)
       ELSE <<h>> \o sorted

RECURSIVE StableSort(_, _)
StableSort(done, todo) ==
  IF todo = <<>> THEN done
  ELSE StableSort(InsertStable(done, Head(todo)), Tail(todo))

\* variant: the array is left as built, newest first
SortSkipped(updated) == updated

\* updated.sort((a, b) => a.firstWordIndex - b.firstWordIndex); Array sort
\* is stable
SortByFirstWordIndex(updated) == StableSort(<<>>, updated)

\* variant: the new highlight is put behind the existing ones before the sort
AddHighlightAtEnd(prev, newHighlight) ==
  SortByFirstWordIndex(prev \o <<newHighlight>>)

\* setHighlights(prev => [newHighlight, ...prev].sort(...))
AddHighlight(prev, newHighlight) ==
  SortByFirstWordIndex(<<newHighlight>> \o prev)

\* the object {}
EmptyMap == [k \in {} |-> <<>>]

\* setHighlightedWordIndices(prev => ({ ...prev, [id]: wordIndices }))
PutIndices(prev, id, wordIndices) ==
  [k \in DOMAIN prev \cup {id} |-> IF k = id THEN wordIndices ELSE prev[k]]

\* variant: the id's entry stays in the map
DeleteIndicesSkipped(prev, id) == prev

\* const newIndices = { ...prev }; delete newIndices[id]
DeleteIndices(prev, id) == [k \in DOMAIN prev \ {id} |-> prev[k]]

\* variant: a response whose card is gone puts a card back
ApplyExplanationUpsert(prev, id, explanation) ==
  IF \E k \in DOMAIN prev : prev[k].id = id
  THEN [k \in DOMAIN prev |->
          IF prev[k].id = id
          THEN [prev[k] EXCEPT !.explanation = Some(explanation), !.loading = FALSE]
          ELSE prev[k]]
  ELSE Append(prev, [ id |-> id, text |-> <<>>, explanation |-> Some(explanation),
                      loading |-> FALSE, firstWordIndex |-> 0 ])

\* variant: the response fills in the explanation and leaves the card pending
ApplyExplanationStillLoading(prev, id, explanation) ==
  [k \in DOMAIN prev |->
     IF prev[k].id = id
     THEN [prev[k] EXCEPT !.explanation = Some(explanation)]
     ELSE prev[k]]

\* prev.map(h => h.id === id ? { ...h, explanation, loading: false } : h)
ApplyExplanation(prev, id, explanation) ==
  [k \in DOMAIN prev |->
     IF prev[k].id = id
     THEN [prev[k] EXCEPT !.explanation = Some(explanation), !.loading = FALSE]
     ELSE prev[k]]

\* variant: the filter keeps the cards made after the dismissed one
WithoutIdAndOlder(prev, id) == SelectSeq(prev, LAMBDA h : h.id > id)

\* prev.filter(h => h.id !== id)
WithoutId(prev, id) == SelectSeq(prev, LAMBDA h : h.id # id)

----------------------------------------------------------------------------
(* Inputs *)

PointerTypes == {"pen", "mouse", "touch"}
\* clientX of pointer events
PointerXs == {10, 100}
\* clientY of pointer-down events; 300 is below the content surface
PointerYs == {100, 300}
\* scroll offsets of the content surface
ScrollTops == {0, 30}
\* what /api/explain answers: data.explanation, or the message of the error
ExplanationOk == "explanation"
ExplanationError == "Error: Failed to fetch explanation"

\* the event just handled: its type, the id it concerned (-1 if none), the
\* path its handler took, whether the handler called e.preventDefault()
\* and window.getSelection().removeAllRanges(), and, for a release that
\* resolved words, whether it resolved them for a span with endX = startX
\* and the <<startX, endX, lineY>> it called findIntersectingWords with
Ev(type, arg, branch, prevented, cleared) ==
  [ type |-> type, arg |-> arg, branch |-> branch,
    prevented |-> prevented, clearedSelection |-> cleared, tap |-> FALSE,
    resolver |-> Null ]

\* no surface is being probed
NoProbe == [stage |-> "none"]

----------------------------------------------------------------------------
(* State machine *)

\* new Set(Object.values(highlightedWordIndices).flat()): the word indices
\* rendered with the class word-highlighted
allHighlightedIndices ==
  UNION { {highlightedWordIndices[id][n] : n \in DOMAIN highlightedWordIndices[id]} :
          id \in DOMAIN highlightedWordIndices }

Init ==
  /\ content = SampleContent
  /\ scrollTop = 0
  /\ highlights = <<>>
  /\ highlightedWordIndices = EmptyMap
  /\ line = Null
  /\ isDrawing = FALSE
  /\ lineYRef = Null
  /\ startXRef = Null
  /\ fetches = EmptyBag
  /\ now = 0
  /\ lastEvent = Ev("init", -1, "none", FALSE, FALSE)
  /\ intersecting = <<>>
  /\ contentLoading = FALSE
  /\ contentError = Null
  /\ urlFetches = 0
  /\ probe = NoProbe

\* the word elements on screen; none while the loading indicator stands in
\* for the content surface
Dom == IF contentLoading THEN <<>> ELSE Elements(content, scrollTop)

\* findLineY(clientY) for every surface and every pointer row, computed once
LineYOn == [c \in Docs \cup {UrlContent} |-> [s \in ScrollTops |-> [y \in PointerYs |->
              findLineY(y, Elements(c, s))]]]

\* the clock behind Date.now() advances
Tick ==
  /\ now < MaxTime
  /\ now' = now + 1
  /\ lastEvent' = Ev("tick", -1, "none", FALSE, FALSE)
  /\ intersecting' = <<>>
  /\ UNCHANGED <<probe, contentLoading, contentError, urlFetches>>
  /\ UNCHANGED <<content, scrollTop, highlights, highlightedWordIndices, line,
                 isDrawing, lineYRef, startXRef, fetches>>

\* the reader scrolls the content surface: every word box moves
Scroll(s) ==
  /\ s # scrollTop
  /\ scrollTop' = s
  /\ lastEvent' = Ev("scroll", -1, "none", FALSE, FALSE)
  /\ intersecting' = <<>>
  /\ UNCHANGED <<probe, contentLoading, contentError, urlFetches>>
  /\ UNCHANGED <<content, highlights, highlightedWordIndices, line, isDrawing,
                 lineYRef, startXRef, fetches, now>>

\* variant: the pointer type is not looked at beyond the mouse's shift key
PointerDownBranchAnyDevice(pointerType, shiftKey, clientX, clientY, lineY) ==
  LET isMouse == pointerType = "mouse"
  IN  IF isMouse /\ shiftKey THEN "shift"
      ELSE IF \/ clientX < articleRect.left \/ clientX > articleRect.right
              \/ clientY < articleRect.top  \/ clientY > articleRect.bottom
           THEN "bounds"
      ELSE IF lineY = Null THEN "noline"
      ELSE "armed"

\* which return of handlePointerDown is taken, given findLineY's result
PointerDownBranch(pointerType, shiftKey, clientX, clientY, lineY) ==
  LET isPen   == pointerType = "pen"
      isMouse == pointerType = "mouse"
  IN  IF isMouse /\ shiftKey THEN "shift"
      ELSE IF ~isPen /\ ~isMouse THEN "device"
      ELSE IF \/ clientX < articleRect.left \/ clientX > articleRect.right
              \/ clientY < articleRect.top  \/ clientY > articleRect.bottom
           THEN "bounds"
      ELSE IF lineY = Null THEN "noline"
      ELSE "armed"

\* variant: arming does not put up the visual line
ArmWithoutLine(clientX, lineY) ==
  /\ isDrawing' = TRUE
  /\ lineYRef' = lineY
  /\ startXRef' = Some(clientX)
  /\ UNCHANGED line

\* setIsDrawing(true); lineYRef.current = lineY; startXRef.current = clientX;
\* setLine({ startX: clientX, endX: clientX, y: lineY })
Arm(clientX, lineY) ==
  /\ isDrawing' = TRUE
  /\ lineYRef' = lineY
  /\ startXRef' = Some(clientX)
  /\ line' = Some([startX |-> clientX, endX |-> clientX, y |-> Val(lineY)])

handlePointerDown(pointerType, shiftKey, clientX, clientY) ==
  LET lineY  == LineYOn[content][scrollTop][clientY]
      branch == PointerDownBranch(pointerType, shiftKey, clientX, clientY, lineY)
  IN  /\ lastEvent' = Ev("pointerdown", -1, branch, branch = "armed", FALSE)
      /\ intersecting' = <<>>
      /\ UNCHANGED <<probe, contentLoading, contentError, urlFetches>>
      /\ IF branch = "armed"
         THEN Arm(clientX, lineY)
         ELSE UNCHANGED <<isDrawing, lineYRef, startXRef, line>>
      /\ UNCHANGED <<content, scrollTop, highlights, highlightedWordIndices,
                     fetches, now>>

\* variant: the move restarts the visual line at the pointer
MovedLineRestarted(prev, clientX) ==
  IF prev # Null THEN Some([Val(prev) EXCEPT !.startX = clientX, !.endX = clientX])
  ELSE Null

\* prev => prev ? { ...prev, endX: e.clientX } : null
MovedLine(prev, clientX) ==
  IF prev # Null THEN Some([Val(prev) EXCEPT !.endX = clientX]) ELSE Null

\* variant: a move is handled whether or not a gesture is under way
MoveIgnoredNever == FALSE

\* if (!isDrawing || lineYRef.current === null) return;
MoveIgnored == ~isDrawing \/ lineYRef = Null

handlePointerMove(clientX) ==
  LET ignored == MoveIgnored
  IN  /\ lastEvent' = Ev("pointermove", -1, IF ignored THEN "idle" ELSE "armed",
                         ~ignored, FALSE)
      /\ intersecting' = <<>>
      /\ UNCHANGED <<probe, contentLoading, contentError, urlFetches>>
      /\ line' = IF ignored THEN line ELSE MovedLine(line, clientX)
      /\ UNCHANGED <<content, scrollTop, highlights, highlightedWordIndices,
                     isDrawing, lineYRef, startXRef, fetches, now>>

\* variant: the refs are not cleared at the end of a release
EndGestureKeepRefs ==
  /\ isDrawing' = FALSE
  /\ line' = Null
  /\ UNCHANGED <<lineYRef, startXRef>>

\* the tail of handlePointerUp: back to idle with the refs cleared
EndGesture ==
  /\ isDrawing' = FALSE
  /\ line' = Null
  /\ lineYRef' = Null
  /\ startXRef' = Null

\* startXRef.current ?? line.startX
ActualStartX == IF startXRef # Null THEN Val(startXRef) ELSE Val(line).startX

\* lineYRef.current ?? line.y
ActualY == IF lineYRef # Null THEN Val(lineYRef) ELSE Val(line).y

\* variant: the words are resolved against the boxes as first laid out
ResolvedOnFirstLayout ==
  findIntersectingWords(ActualStartX, Val(line).endX, ActualY, Elements(content, 0))

\* the words the release resolves, against the layout as it is now
Resolved == findIntersectingWords(ActualStartX, Val(line).endX, ActualY, Dom)

\* intersecting.map(w => w.text).join(' ')
SelectedText(words) == JoinWithSpace([k \in DOMAIN words |-> words[k].text])

\* intersecting.map(w => w.index)
WordIndices(words) == [k \in DOMAIN words |-> words[k].index]

\* variant: no comparison with the existing cards
PointerUpBranchNoDedup(words) ==
  IF Len(words) = 0 THEN "empty" ELSE "accepted"

\* variant: no new highlight while an explanation is being fetched
PointerUpBranchOneAtATime(words) ==
  IF Len(words) = 0 \/ fetches # EmptyBag THEN "empty"
  ELSE IF IsAlreadyHighlighted(highlights, SelectedText(words)) THEN "duplicate"
  ELSE "accepted"

\* the path handlePointerUp takes, given the words it resolves
PointerUpBranch(words) ==
  IF Len(words) = 0 THEN "empty"
  ELSE IF IsAlreadyHighlighted(highlights, SelectedText(words)) THEN "duplicate"
  ELSE "accepted"

\* the object literal newHighlight
NewHighlight(id, selectedText, wordIndices) ==
  [ id |-> id, text |-> selectedText, explanation |-> Null, loading |-> TRUE,
    firstWordIndex |-> MinOf(wordIndices) ]

handlePointerUp ==
  IF ~isDrawing \/ line = Null
  THEN /\ isDrawing' = FALSE
       /\ line' = Null
       /\ lastEvent' = Ev("pointerup", -1, "idle", FALSE, FALSE)
       /\ intersecting' = <<>>
       /\ UNCHANGED <<probe, contentLoading, contentError, urlFetches>>
       /\ UNCHANGED <<content, scrollTop, highlights, highlightedWordIndices,
                      lineYRef, startXRef, fetches, now>>
  ELSE LET words  == Resolved
           branch == PointerUpBranch(words)
       IN  /\ branch = "accepted" => BagCardinality(fetches) < MaxFetches
           /\ intersecting' = words
           /\ UNCHANGED <<probe, contentLoading, contentError, urlFetches>>
           /\ lastEvent' = [Ev("pointerup", IF branch = "accepted" THEN now ELSE -1,
                               branch, FALSE, TRUE)
                              EXCEPT !.tap = (Val(line).endX = ActualStartX),
                                     !.resolver = Some(<<ActualStartX, Val(line).endX, ActualY>>)]
           /\ IF branch = "accepted"
              THEN LET selectedText == SelectedText(words)
                       wordIndices  == WordIndices(words)
                       newHighlight == NewHighlight(now, selectedText, wordIndices)
                   IN  /\ highlights' = AddHighlight(highlights, newHighlight)
                       /\ highlightedWordIndices' =
                            PutIndices(highlightedWordIndices, newHighlight.id, wordIndices)
                       /\ fetches' = fetches (+) SetToBag({newHighlight.id})
              ELSE UNCHANGED <<highlights, highlightedWordIndices, fetches>>
           /\ EndGesture
           /\ UNCHANGED <<content, scrollTop, now>>

\* no listener is registered for pointercancel
PointerCancel ==
  /\ lastEvent' = Ev("pointercancel", -1, IF isDrawing THEN "armed" ELSE "idle",
                     FALSE, FALSE)
  /\ intersecting' = <<>>
  /\ UNCHANGED <<probe, contentLoading, contentError, urlFetches>>
  /\ UNCHANGED <<content, scrollTop, highlights, highlightedWordIndices, line,
                 isDrawing, lineYRef, startXRef, fetches, now>>

\* fetchExplanation(id, text) after its awaits; what follows the awaits uses
\* id alone.  The response is a good one (ok) or the request failed.
fetchExplanation(id, ok) ==
  LET explanation == IF ok THEN ExplanationOk ELSE ExplanationError
      hit == \E j \in DOMAIN highlights : highlights[j].id = id
  IN  /\ highlights' = ApplyExplanation(highlights, id, explanation)
      /\ fetches' = fetches (-) SetToBag({id})
      /\ lastEvent' = Ev(IF ok THEN "explained" ELSE "explainfailed", id,
                         IF hit THEN "hit" ELSE "miss", FALSE, FALSE)
      /\ intersecting' = <<>>
      /\ UNCHANGED <<probe, contentLoading, contentError, urlFetches>>
      /\ UNCHANGED <<content, scrollTop, highlightedWordIndices, line, isDrawing,
                     lineYRef, startXRef, now>>

\* the card's dismiss button
removeHighlight(id) ==
  /\ highlights' = WithoutId(highlights, id)
  /\ highlightedWordIndices' = DeleteIndices(highlightedWordIndices, id)
  /\ lastEvent' = Ev("remove", id, "none", FALSE, FALSE)
  /\ intersecting' = <<>>
  /\ UNCHANGED <<probe, contentLoading, contentError, urlFetches>>
  /\ UNCHANGED <<content, scrollTop, line, isDrawing, lineYRef, startXRef,
                 fetches, now>>

\* the "Clear all" button, rendered while there is a card
clearAll ==
  /\ Len(highlights) > 0
  /\ highlights' = <<>>
  /\ highlightedWordIndices' = EmptyMap
  /\ lastEvent' = Ev("clear", -1, "none", FALSE, FALSE)
  /\ intersecting' = <<>>
  /\ UNCHANGED <<probe, contentLoading, contentError, urlFetches>>
  /\ UNCHANGED <<content, scrollTop, line, isDrawing, lineYRef, startXRef,
                 fetches, now>>

\* variant: a reload resets the registry and leaves the gesture as it is
ResetOnLoadKeepGesture ==
  /\ highlights' = <<>>
  /\ highlightedWordIndices' = EmptyMap
  /\ UNCHANGED <<line, isDrawing>>

\* what loadNewContent resets of the highlight and gesture state
ResetOnLoad ==
  /\ highlights' = <<>>
  /\ highlightedWordIndices' = EmptyMap
  /\ line' = Null
  /\ isDrawing' = FALSE

loadNewContent(newContent) ==
  /\ ResetOnLoad
  /\ content' = newContent
  /\ scrollTop' = 0
  /\ lastEvent' = Ev("load", -1, IF isDrawing THEN "armed" ELSE "idle", FALSE, TRUE)
  /\ intersecting' = <<>>
  /\ contentError' = Null
  /\ UNCHANGED <<probe, contentLoading, urlFetches>>
  /\ UNCHANGED <<lineYRef, startXRef, fetches, now>>

Next ==
  \/ Tick
  \/ \E s \in ScrollTops : Scroll(s)
  \/ \E pointerType \in PointerTypes, shiftKey \in BOOLEAN,
        clientX \in PointerXs, clientY \in PointerYs :
       handlePointerDown(pointerType, shiftKey, clientX, clientY)
  \/ \E clientX \in PointerXs : handlePointerMove(clientX)
  \/ handlePointerUp
  \/ PointerCancel
  \/ \E id \in BagToSet(fetches), ok \in BOOLEAN : fetchExplanation(id, ok)
  \/ \E k \in DOMAIN highlights : removeHighlight(highlights[k].id)
  \/ clearAll
  \/ \E newContent \in Docs : loadNewContent(newContent)

Spec == Init /\ [][Next]_vars

\* the request for id gets its response or fails
Respond(id) ==
  /\ id \in BagToSet(fetches)
  /\ \E ok \in BOOLEAN : fetchExplanation(id, ok)

\* the reader under the assumption that /api/explain answers every request
\* or fails it: no request stays in flight for ever
FairSpec == Spec /\ \A id \in 0..MaxTime : WF_vars(Respond(id))


----------------------------------------------------------------------------
(* Content acquisition: the "From URL" form *)

\* what the reader types into the form
Urls == {"not a url", "https://example.com/article"}

\* new URL(url) does not throw
ValidUrl(url) == url = "https://example.com/article"

\* what comes back from /api/fetch: the request is rejected (network error),
\* or answered with response.ok, data.error and data.content
UrlResponses ==
  { [rejected |-> TRUE,  ok |-> FALSE, error |-> Null, content |-> Null],
    [rejected |-> FALSE, ok |-> FALSE, error |-> Some("Not found"), content |-> Null],
    [rejected |-> FALSE, ok |-> FALSE, error |-> Null, content |-> Null],
    [rejected |-> FALSE, ok |-> TRUE,  error |-> Null, content |-> Null],
    [rejected |-> FALSE, ok |-> TRUE,  error |-> Null, content |-> Some("  ")],
    [rejected |-> FALSE, ok |-> TRUE,  error |-> Null, content |-> Some("urlText")] }

\* !data.content || data.content.trim().length === 0
NoReadableContent(data) ==
  data.content = Null \/ Val(data.content) \in {"", " ", "  "}

\* the message of the error the try block ends with, Null if it ends well
UrlError(response) ==
  IF response.rejected THEN Some("Failed to fetch")
  ELSE IF ~response.ok
       THEN IF response.error # Null THEN response.error
            ELSE Some("Failed to fetch URL")
  ELSE IF NoReadableContent(response)
       THEN Some("No readable content found at this URL")
  ELSE Null

\* fetchUrl(url) up to its await.  The form's field and buttons are disabled
\* while contentLoading.
fetchUrl(url) ==
  /\ ~contentLoading
  /\ IF ~ValidUrl(url)
     THEN /\ contentError' = Some("Please enter a valid URL")
          /\ UNCHANGED <<contentLoading, urlFetches>>
     ELSE /\ contentLoading' = TRUE
          /\ contentError' = Null
          /\ urlFetches' = urlFetches + 1
  /\ lastEvent' = Ev("fetchurl", -1, IF ValidUrl(url) THEN "sent" ELSE "invalid",
                     FALSE, FALSE)
  /\ intersecting' = <<>>
  /\ UNCHANGED <<content, scrollTop, highlights, highlightedWordIndices, line,
                 isDrawing, lineYRef, startXRef, fetches, now, probe>>

\* variant: the failure is reported and the form stays in its loading state
FailUrlStillLoading(message) ==
  /\ contentError' = message
  /\ UNCHANGED contentLoading
  /\ UNCHANGED <<content, scrollTop, highlights, highlightedWordIndices, line,
                 isDrawing>>

\* catch (error) { setContentError(error.message) } finally
\* { setContentLoading(false) }
FailUrl(message) ==
  /\ contentError' = message
  /\ contentLoading' = FALSE
  /\ UNCHANGED <<content, scrollTop, highlights, highlightedWordIndices, line,
                 isDrawing>>

\* fetchUrl after its awaits, given what came back
fetchUrlSettled(response) ==
  /\ urlFetches > 0
  /\ urlFetches' = urlFetches - 1
  /\ IF UrlError(response) # Null
     THEN /\ FailUrl(UrlError(response))
          /\ lastEvent' = Ev("urlsettled", -1, "failed", FALSE, FALSE)
     ELSE /\ ResetOnLoad
          /\ content' = UrlContent
          /\ scrollTop' = 0
          /\ contentError' = Null
          /\ contentLoading' = FALSE
          /\ lastEvent' = Ev("urlsettled", -1, "loaded", FALSE, TRUE)
  /\ intersecting' = <<>>
  /\ UNCHANGED <<lineYRef, startXRef, fetches, now, probe>>

\* the Reset button, rendered for a document other than the sample and
\* disabled while contentLoading
loadSampleText ==
  /\ content.type # "sample"
  /\ ~contentLoading
  /\ loadNewContent(SampleContent)

\* the reader with a pen on the first line and the form; the content
\* surface, which carries onPointerDown, is rendered only while not loading
ContentNext ==
  \/ Tick
  \/ /\ ~contentLoading
     /\ \E clientX \in PointerXs : handlePointerDown("pen", FALSE, clientX, 100)
  \/ \E clientX \in PointerXs : handlePointerMove(clientX)
  \/ handlePointerUp
  \/ \E id \in BagToSet(fetches), ok \in BOOLEAN : fetchExplanation(id, ok)
  \/ \E url \in Urls : fetchUrl(url)
  \/ \E response \in UrlResponses : fetchUrlSettled(response)
  \/ loadSampleText

ContentSpec == Init /\ [][ContentNext]_vars

----------------------------------------------------------------------------
(* findLineY and findIntersectingWords on freely laid out surfaces *)

\* a surface has at most this many word elements
MaxSurfaceWords == 3

\* <<left, right>> of the boxes getBoundingClientRect can report: a span
\* without width, and two spans that meet at x = 40
SurfaceColumns == { <<0, 0>>, <<10, 40>>, <<40, 70>> }

\* <<top, bottom>> of the boxes: centres 100, 100.5 and 115, a line above
\* the viewport (centre -20) and one at its top (centre 20), a box squashed
\* to no height by a transform, and the two ends of the bucket of key 100
\* (centres 94.5 and 104)
SurfaceRows == { <<90, 110>>, <<90, 111>>, <<105, 125>>,
                 <<-30, -10>>, <<10, 30>>, <<100, 100>>,
                 <<84, 105>>, <<94, 114>> }

\* a word element of a plain-text surface with the given box
SurfaceElement(column, row) ==
  [ dataIndex   |-> Null,
    textContent |-> <<"w">>,
    rect        |-> [ left |-> column[1], right |-> column[2],
                      top |-> row[1], bottom |-> row[2],
                      width |-> column[2] - column[1] ] ]

\* the boxes a word element can have: every row in the first column, every
\* column in the first row, and a neighbour in the next column 15 below it
SurfaceElements ==
  {SurfaceElement(<<10, 40>>, row) : row \in SurfaceRows}
    \cup {SurfaceElement(column, <<90, 110>>) : column \in SurfaceColumns}
    \cup {SurfaceElement(<<40, 70>>, <<105, 125>>)}

\* wordRefs.current, in document order, with any box for each element
Surfaces == UNION {[1..n -> SurfaceElements] : n \in 0..MaxSurfaceWords}

\* where the pointer goes down and where it is released
ProbeYs == {0, 100, 110}
ProbeXs == {10, 25, 40}

Laid(els) ==
  [ stage |-> "laid", els |-> els, clientY |-> 0, lineY |-> Null,
    startX |-> 0, endX |-> 0, words |-> <<>> ]

GeometryInit ==
  /\ content = SampleContent
  /\ scrollTop = 0
  /\ highlights = <<>>
  /\ highlightedWordIndices = EmptyMap
  /\ line = Null
  /\ isDrawing = FALSE
  /\ lineYRef = Null
  /\ startXRef = Null
  /\ fetches = EmptyBag
  /\ now = 0
  /\ lastEvent = Ev("init", -1, "none", FALSE, FALSE)
  /\ intersecting = <<>>
  /\ contentLoading = FALSE
  /\ contentError = Null
  /\ urlFetches = 0
  /\ probe \in {Laid(els) : els \in Surfaces}

\* const lineY = findLineY(e.clientY)
LocateLine(clientY) ==
  /\ probe.stage = "laid"
  /\ probe' = [probe EXCEPT !.stage = "located", !.clientY = clientY,
                            !.lineY = findLineY(clientY, probe.els)]
  /\ UNCHANGED <<content, scrollTop, highlights, highlightedWordIndices, line,
                 isDrawing, lineYRef, startXRef, fetches, now, lastEvent,
                 intersecting, contentLoading, contentError, urlFetches>>

\* const intersecting = findIntersectingWords(actualStartX, line.endX, actualY)
ResolveSpan(startX, endX) ==
  /\ probe.stage = "located"
  /\ probe.lineY # Null
  /\ probe' = [probe EXCEPT !.stage = "resolved", !.startX = startX, !.endX = endX,
                            !.words = findIntersectingWords(startX, endX,
                                        Val(probe.lineY), probe.els)]
  /\ UNCHANGED <<content, scrollTop, highlights, highlightedWordIndices, line,
                 isDrawing, lineYRef, startXRef, fetches, now, lastEvent,
                 intersecting, contentLoading, contentError, urlFetches>>

GeometryNext ==
  \/ \E clientY \in ProbeYs : LocateLine(clientY)
  \/ \E startX \in ProbeXs, endX \in ProbeXs : ResolveSpan(startX, endX)

GeometrySpec == GeometryInit /\ [][GeometryNext]_vars

----------------------------------------------------------------------------
(* The highlights list on its own: setHighlights in handlePointerUp *)

\* a highlights list has at most this many highlights before the commit
MaxCards == 3

\* the firstWordIndex values highlights can have
CardKeys == {0, 1, 2, 3}

\* a highlight as handlePointerUp commits it; the text is one no other id has
Card(id, firstWordIndex) ==
  NewHighlight(id, [k \in 1..(id + 1) |-> "x"], <<firstWordIndex>>)

\* the highlights lists of n highlights the reader can hold: sorted by
\* firstWordIndex, here with the ids of highlights committed from the end of
\* the document towards its start
Registries(n) ==
  { [j \in 1..n |-> Card(n - j, keys[j])] :
      keys \in {s \in [1..n -> CardKeys] :
                  \A i, j \in 1..n : i < j => s[i] <= s[j]} }

Listed(prev) == [stage |-> "listed", prev |-> prev]

RegistryInit ==
  /\ content = SampleContent
  /\ scrollTop = 0
  /\ highlights = <<>>
  /\ highlightedWordIndices = EmptyMap
  /\ line = Null
  /\ isDrawing = FALSE
  /\ lineYRef = Null
  /\ startXRef = Null
  /\ fetches = EmptyBag
  /\ now = 0
  /\ lastEvent = Ev("init", -1, "none", FALSE, FALSE)
  /\ intersecting = <<>>
  /\ contentLoading = FALSE
  /\ contentError = Null
  /\ urlFetches = 0
  /\ probe \in {Listed(prev) : prev \in UNION {Registries(n) : n \in 0..MaxCards}}

\* setHighlights(prev => [newHighlight, ...prev].sort(...)) for a new
\* highlight whose id, taken from the clock, is later than every other
CommitHighlight(firstWordIndex) ==
  /\ probe.stage = "listed"
  /\ LET newHighlight == Card(Len(probe.prev), firstWordIndex)
     IN  probe' = [ stage |-> "added", prev |-> probe.prev,
                    newHighlight |-> newHighlight,
                    updated |-> AddHighlight(probe.prev, newHighlight) ]
  /\ UNCHANGED <<content, scrollTop, highlights, highlightedWordIndices, line,
                 isDrawing, lineYRef, startXRef, fetches, now, lastEvent,
                 intersecting, contentLoading, contentError, urlFetches>>

RegistryNext == \E firstWordIndex \in CardKeys : CommitHighlight(firstWordIndex)

RegistrySpec == RegistryInit /\ [][RegistryNext]_vars

----------------------------------------------------------------------------
(* Properties *)

Positions(s) == DOMAIN s

\* the last event was a release that took the given path
Released(ev, branch) == ev.type = "pointerup" /\ ev.branch = branch

\* the last event was the arrival of an explanation response
Completed(ev) == ev.type \in {"explained", "explainfailed"}

\* the cards of after that are not cards of before
NewCards(before, after) ==
  {k \in Positions(after) : \A j \in Positions(before) : before[j] # after[k]}

\* the texts of a set of word records, by ascending word index
TextsByIndex(words) ==
  LET idx == Ascending({words[k].index : k \in Positions(words)})
  IN  [n \in Positions(idx) |->
         (CHOOSE w \in {words[k] : k \in Positions(words)} : w.index = idx[n]).text]

\* texts with exactly one blank between consecutive ones
RECURSIVE SpaceJoined(_)
SpaceJoined(texts) ==
  IF Len(texts) = 0 THEN <<>>
  ELSE IF Len(texts) = 1 THEN texts[1]
  ELSE SpaceJoined(SubSeq(texts, 1, Len(texts) - 1)) \o <<" ">> \o texts[Len(texts)]

QuickBrownFox == <<"q","u","i","c","k"," ","b","r","o","w","n"," ","f","o","x">>

\* C1: no two highlights of the registry have texts that are equal when
\* compared without regard to case.
C1_NoCaseInsensitiveDuplicates ==
  \A i, j \in Positions(highlights) :
     i # j => toLowerCase(highlights[i].text) # toLowerCase(highlights[j].text)

\* a release was rejected against a card whose text differs from the
\* selected text by case only
C1_Witness ==
  /\ Released(lastEvent, "duplicate")
  /\ \E k \in Positions(highlights) :
        /\ highlights[k].text # SelectedText(intersecting)
        /\ toLowerCase(highlights[k].text) = toLowerCase(SelectedText(intersecting))

\* C2: the highlights list is non-decreasing in firstWordIndex.
C2_SortedByFirstWordIndex ==
  \A i, j \in Positions(highlights) :
     i < j => highlights[i].firstWordIndex <= highlights[j].firstWordIndex

\* a release was accepted whose card had to move behind an older card
C2_Witness ==
  /\ Released(lastEvent, "accepted")
  /\ Len(highlights) >= 2
  /\ highlights[Len(highlights)].text = SelectedText(intersecting)
  /\ highlights[1].firstWordIndex < highlights[Len(highlights)].firstWordIndex

\* C3: an accepted release adds one highlight, and its text is the texts of
\* the resolved words, taken by ascending index, joined by single blanks.
C3_TextIsSpaceJoined ==
  [][ Released(lastEvent', "accepted") =>
        /\ Cardinality(NewCards(highlights, highlights')) = 1
        /\ \A k \in NewCards(highlights, highlights') :
              highlights'[k].text = SpaceJoined(TextsByIndex(intersecting')) ]_vars

\* the release that selected the three words quick, brown, fox was accepted
C3_Witness ==
  /\ Released(lastEvent, "accepted")
  /\ Len(intersecting) = 3
  /\ \E k \in Positions(highlights) : highlights[k].text = QuickBrownFox

\* C4: an accepted release gives the new highlight the least resolved index
\* as firstWordIndex and stores exactly the resolved indices under its id.
C4_KeyAndIndices ==
  [][ Released(lastEvent', "accepted") =>
        \A k \in NewCards(highlights, highlights') :
           /\ highlights'[k].firstWordIndex =
                Min({intersecting'[j].index : j \in Positions(intersecting')})
           /\ highlights'[k].id \in DOMAIN highlightedWordIndices'
           /\ highlightedWordIndices'[highlights'[k].id] =
                [j \in Positions(intersecting') |-> intersecting'[j].index] ]_vars

\* the sweep over words 1-3 of The/quick/brown/fox/jumps was accepted
C4_Witness ==
  /\ Released(lastEvent, "accepted")
  /\ \E k \in Positions(highlights) :
        /\ highlights[k].text = QuickBrownFox
        /\ highlights[k].firstWordIndex = 1
        /\ highlights[k].id = lastEvent.arg
        /\ highlightedWordIndices[highlights[k].id] = <<1, 2, 3>>

\* C5: an explanation response for an id that is not in the registry leaves
\* the highlights list and the index map as they were.
C5_StaleResponseIsNoOp ==
  [][ /\ Completed(lastEvent')
      /\ \A k \in Positions(highlights) : highlights[k].id # lastEvent'.arg
      => /\ highlights' = highlights
         /\ highlightedWordIndices' = highlightedWordIndices ]_vars

\* a response arrived for a removed card while another card was on show
C5_Witness ==
  /\ Completed(lastEvent)
  /\ lastEvent.branch = "miss"
  /\ Len(highlights) >= 1

\* C6: an explanation response changes only the highlight of the commit that
\* issued the request, so at most one highlight changes.
C6_OnlyOwnHighlightChanges ==
  [][ Completed(lastEvent') =>
        Cardinality({k \in Positions(highlights) : highlights'[k] # highlights[k]}) <= 1 ]_vars

\* C7: an accepted release gives the new highlight an id greater than the id
\* of every highlight on show and of every request still in flight.
C7_IdsStrictlyIncrease ==
  [][ Released(lastEvent', "accepted") =>
        /\ \A k \in Positions(highlights) : highlights[k].id < lastEvent'.arg
        /\ \A id \in BagToSet(fetches) : id < lastEvent'.arg ]_vars

\* C8: right after loadNewContent the registry and the index map are empty,
\* there is no line and no drawing; drawing starts again only with a
\* pointer-down, and a release that arrives before that commits nothing.
C8_LoadResetsEverything ==
  [][ /\ lastEvent'.type = "load" =>
           /\ highlights' = <<>>
           /\ DOMAIN highlightedWordIndices' = {}
           /\ line' = Null
           /\ ~isDrawing'
      /\ ~isDrawing /\ isDrawing' => lastEvent'.type = "pointerdown"
      /\ ~isDrawing /\ lastEvent'.type = "pointerup" =>
           /\ highlights' = highlights
           /\ highlightedWordIndices' = highlightedWordIndices
           /\ fetches' = fetches ]_vars

\* a release arrived after a reload that had interrupted a drag
C8_Witness ==
  /\ Released(lastEvent, "idle")
  /\ lineYRef # Null
  /\ highlights = <<>>

\* C9: a pointer-cancel while drawing ends the drawing, clears the line and
\* creates no highlight.
C9_CancelReturnsToIdle ==
  [][ lastEvent'.type = "pointercancel" /\ isDrawing =>
        /\ ~isDrawing'
        /\ line' = Null
        /\ highlights' = highlights ]_vars

\* C10: a release while drawing ends with no drawing, no line and both refs
\* cleared, whatever the release resolved.
C10_ReleaseAlwaysEndsIdle ==
  [][ lastEvent'.type = "pointerup" /\ isDrawing =>
        /\ lastEvent'.branch \in {"empty", "duplicate", "accepted"}
        /\ ~isDrawing'
        /\ line' = Null
        /\ lineYRef' = Null
        /\ startXRef' = Null ]_vars

\* a release that resolved an already highlighted text has ended the gesture
C10_Witness ==
  /\ Released(lastEvent, "duplicate")
  /\ ~isDrawing
  /\ line = Null
  /\ lineYRef = Null
  /\ startXRef = Null

----------------------------------------------------------------------------
(* Gesture policy *)

\* what a gesture and the registry consist of
GestureState == <<line, isDrawing, lineYRef, startXRef>>
RegistryState == <<highlights, highlightedWordIndices, fetches>>

C12_NoLineIffEmptySnapshot ==
  [][lastEvent'.type = "pointerdown" =>
       LET empty == Len(getWordData(Dom)) = 0
           lines == {LineYOn[content][scrollTop][clientY] : clientY \in PointerYs}
       IN  /\ \A lineY \in lines : lineY = Null <=> empty
           /\ lastEvent'.prevented =>
                /\ ~empty
                /\ lineYRef' # Null
                /\ lineYRef' \in lines
                /\ isDrawing'
           /\ empty =>
                /\ ~isDrawing'
                /\ line' = Null
                /\ ~lastEvent'.prevented
                /\ GestureState' = GestureState
                /\ RegistryState' = RegistryState]_vars

\* a pen went down inside the article while it shows no word
C12_Witness ==
  /\ lastEvent.type = "pointerdown"
  /\ lastEvent.branch = "noline"
  /\ Len(getWordData(Dom)) = 0
  /\ ~isDrawing

\* C13: a pointer-move while armed changes the visual line's endX and nothing
\* else: the line's startX and y, the locked lineY and startX, isDrawing, the
\* highlights, the highlight-to-indices map and the fetches in flight are as
\* before, and no word is resolved.
C13_MoveChangesOnlyEndX ==
  [][(lastEvent'.type = "pointermove" /\ isDrawing) =>
       /\ line # Null /\ line' # Null
       /\ Val(line').startX = Val(line).startX
       /\ Val(line').y = Val(line).y
       /\ \A clientX \in PointerXs :
            handlePointerMove(clientX) => Val(line').endX = clientX
       /\ lineYRef' = lineYRef /\ startXRef' = startXRef
       /\ isDrawing'
       /\ RegistryState' = RegistryState
       /\ intersecting' = <<>>
       /\ content' = content /\ scrollTop' = scrollTop /\ now' = now]_vars

\* the pointer has moved away from where the gesture started, with a card
\* on the page
C13_Witness ==
  /\ lastEvent.type = "pointermove"
  /\ isDrawing
  /\ Val(line).endX # Val(line).startX
  /\ Val(line).startX = Val(startXRef)
  /\ Len(highlights) > 0

\* C14: from the arming pointer-down until the gesture is idle again, the
\* locked lineY and startX keep the values captured at arming, whatever
\* happens in between: no step from an armed state to an armed state
\* changes either ref.
C14_LockHeldWhileArmed ==
  [][(isDrawing /\ isDrawing') =>
       (lineYRef' = lineYRef /\ startXRef' = startXRef)]_vars

\* the blank-joined text of resolved words, in the order they were resolved
TextOf(words) == SpaceJoined([k \in Positions(words) |-> words[k].text])

\* C15: a release whose resolved text equals an existing highlight's text
\* when compared without regard to case leaves the registry as it is: the
\* highlights list (and with it every card's explanation and loading flag)
\* and the highlight-to-indices map are unchanged and no fetch is issued.
C15_DuplicateReleaseIsSilent ==
  [][(/\ lastEvent'.type = "pointerup"
      /\ isDrawing /\ line # Null
      /\ Len(intersecting') > 0
      /\ \E k \in Positions(highlights) :
            toLowerCase(highlights[k].text) = toLowerCase(TextOf(intersecting'))) =>
       /\ highlights' = highlights
       /\ highlightedWordIndices' = highlightedWordIndices
       /\ fetches' = fetches]_vars

\* a release resolved the very text of a card whose explanation has arrived
C15_Witness ==
  /\ lastEvent.type = "pointerup"
  /\ Len(intersecting) > 0
  /\ \E k \in Positions(highlights) :
        /\ highlights[k].text = TextOf(intersecting)
        /\ ~highlights[k].loading
  /\ Len(highlights) = 1
  /\ fetches = EmptyBag

----------------------------------------------------------------------------
(* Line Locator and Span Resolver on its own *)

\* the snapshot findLineY and findIntersectingWords work on
Snapshot == getWordData(probe.els)

\* the integer nearest to (top + bottom) / 2, the upper one of two
Rounded(w) ==
  LET sum == w.rect.top + w.rect.bottom
  IN  IF sum % 2 = 0 THEN sum \div 2 ELSE (sum \div 2) + 1

\* ten times the integer nearest to Rounded(w) / 10, the upper one of two
KeyOf(w) ==
  LET below == Rounded(w) \div 10
  IN  IF Rounded(w) % 10 >= 5 THEN 10 * (below + 1) ELSE 10 * below

\* the positions of the snapshot that fall into the bucket of a key
Bucket(key) == {k \in Positions(Snapshot) : KeyOf(Snapshot[k]) = key}

RECURSIVE SumRounded(_)
SumRounded(S) ==
  IF S = {} THEN 0
  ELSE LET k == CHOOSE j \in S : TRUE
       IN  Rounded(Snapshot[k]) + SumRounded(S \ {k})

BucketKeys == {KeyOf(Snapshot[k]) : k \in Positions(Snapshot)}

\* the fraction lineY is the mean of the bucket
IsMeanOf(lineY, key) ==
  lineY[1] * Cardinality(Bucket(key)) = SumRounded(Bucket(key)) * lineY[2]

\* |pointerY - mean| of one bucket against another's, without dividing
NoFartherThan(pointerY, key, other) ==
  Abs(pointerY * Cardinality(Bucket(key)) - SumRounded(Bucket(key)))
      * Cardinality(Bucket(other))
    <= Abs(pointerY * Cardinality(Bucket(other)) - SumRounded(Bucket(other)))
         * Cardinality(Bucket(key))

EquallyFar(pointerY, key, other) ==
  NoFartherThan(pointerY, key, other) /\ NoFartherThan(pointerY, other, key)

\* the bucket findLineY answered with
Chosen == CHOOSE key \in BucketKeys : IsMeanOf(Val(probe.lineY), key)

Located == probe.stage = "located" /\ Len(Snapshot) > 0

\* C16: for a non-empty snapshot findLineY(pointerY) is the arithmetic mean
\* of the rounded centerY of the words of one bucket (bucket key =
\* round(centerY / 10) * 10), and no bucket's mean is nearer to pointerY.
C16_MeanOfNearestBucket ==
  Located =>
    /\ probe.lineY # Null
    /\ \E key \in BucketKeys :
          /\ IsMeanOf(Val(probe.lineY), key)
          /\ \A other \in BucketKeys : NoFartherThan(probe.clientY, key, other)

\* the nearer of two buckets was found, and it holds two words with
\* different centres
C16_Witness ==
  /\ Located
  /\ Cardinality(BucketKeys) = 2
  /\ Cardinality(Bucket(Chosen)) = 2
  /\ probe.lineY # Null
  /\ Val(probe.lineY)[2] = 2
  /\ \E other \in BucketKeys : ~NoFartherThan(probe.clientY, other, Chosen)

\* where in the snapshot the first word of a bucket stands
FirstPosition(key) == Min(Bucket(key))

\* the buckets other than the chosen one that are exactly as far from the
\* pointer
Ties ==
  {other \in BucketKeys \ {Chosen} : EquallyFar(probe.clientY, Chosen, other)}

SpanResolved == probe.stage = "resolved"

\* |(top + bottom) / 2 - lineY|, doubled and cleared of the denominator
TwiceOffset(w, lineY) ==
  Abs((w.rect.top + w.rect.bottom) * lineY[2] - 2 * lineY[1])

\* the snapshot positions the claim selects for a span on a line
Selected(startX, endX, lineY) ==
  LET lo == IF startX <= endX THEN startX ELSE endX
      hi == IF startX <= endX THEN endX ELSE startX
  IN  {k \in Positions(Snapshot) :
         /\ TwiceOffset(Snapshot[k], lineY) <= 2 * 15 * lineY[2]
         /\ Snapshot[k].rect.right >= lo
         /\ Snapshot[k].rect.left <= hi}

\* C18: findIntersectingWords(startX, endX, lineY) returns, in snapshot
\* order, exactly the snapshot words with |(top + bottom) / 2 - lineY| <= 15,
\* right >= min(startX, endX) and left <= max(startX, endX).
C18_ExactlyTheWordsOnTheSpan ==
  SpanResolved =>
    LET picked == Ascending(Selected(probe.startX, probe.endX, Val(probe.lineY)))
    IN  /\ Len(probe.words) = Len(picked)
        /\ \A n \in Positions(picked) : probe.words[n] = Snapshot[picked[n]]

\* two words were resolved, one of them exactly 15 off the line and
\* touching the span only at its left edge, while a third word of the
\* snapshot was left out
C18_Witness ==
  /\ SpanResolved
  /\ Len(probe.words) = 2
  /\ Len(Snapshot) = 3
  /\ probe.startX > probe.endX
  /\ \E n \in Positions(probe.words) :
        /\ TwiceOffset(probe.words[n], Val(probe.lineY)) = 30 * Val(probe.lineY)[2]
        /\ probe.words[n].rect.left = probe.startX
  /\ \E n \in Positions(probe.words) :
        /\ probe.words[n].rect.left < probe.endX
        /\ probe.words[n].rect.right > probe.endX

----------------------------------------------------------------------------
(* Taps *)

\* word k of the snapshot is alone in its bucket, and lineY is that bucket's
\* representative Y
IsSingleTokenLine(words, k, lineY) ==
  /\ \A j \in Positions(words) \ {k} : KeyOf(words[j]) # KeyOf(words[k])
  /\ lineY[1] = Rounded(words[k]) * lineY[2]

\* no other word of the snapshot is within the tolerance of lineY
NoNeighbour(words, k, lineY) ==
  \A j \in Positions(words) \ {k} : TwiceOffset(words[j], lineY) > 30 * lineY[2]

\* C19 as stated: a gesture armed on a line that holds a single token and
\* released at once, with endX = startX, resolves exactly that token.
C19_TapResolvesTheLinesToken ==
  [][(/\ lastEvent.type = "pointerdown" /\ lastEvent.prevented
      /\ isDrawing
      /\ lastEvent'.type = "pointerup") =>
       LET words == getWordData(Dom)
       IN  \A k \in Positions(words) :
             IsSingleTokenLine(words, k, Val(lineYRef)) =>
               intersecting' = <<words[k]>>]_vars

\* C19 amended: a release with endX = startX on the line of a single token,
\* no token of another line being within 15 of the locked lineY, resolves
\* exactly that token when startX lies within the token's box
\* (left <= startX <= right), and no token when it lies outside.
C19_TapResolvesTheTokenUnderIt ==
  [][(/\ isDrawing /\ line # Null /\ lineYRef # Null /\ startXRef # Null
      /\ Val(line).endX = Val(startXRef)
      /\ lastEvent'.type = "pointerup") =>
       LET words == getWordData(Dom)
           x     == Val(startXRef)
       IN  \A k \in Positions(words) :
             (/\ IsSingleTokenLine(words, k, Val(lineYRef))
              /\ NoNeighbour(words, k, Val(lineYRef))) =>
               intersecting' = IF words[k].rect.left <= x /\ x <= words[k].rect.right
                               THEN <<words[k]>>
                               ELSE <<>>]_vars

\* a tap has resolved the one word of a line the sample text shares with
\* no other word
C19_Witness ==
  /\ lastEvent.type = "pointerup"
  /\ lastEvent.tap
  /\ Len(intersecting) = 1
  /\ ~content.isMarkdown
  /\ LET words == getWordData(Dom)
     IN  \E k \in Positions(words) :
           /\ words[k] = intersecting[1]
           /\ \A j \in Positions(words) \ {k} : KeyOf(words[j]) # KeyOf(words[k])

----------------------------------------------------------------------------
(* Token snapshot *)

\* C20: the token snapshot holds no token whose box has zero area (zero
\* width or zero height), so no such token is among the words a line is
\* located from or among the words a release resolves.
C20_NoZeroAreaTokenInSnapshot ==
  /\ \A k \in Positions(Snapshot) :
        /\ Snapshot[k].rect.right - Snapshot[k].rect.left > 0
        /\ Snapshot[k].rect.bottom - Snapshot[k].rect.top > 0
  /\ \A n \in Positions(probe.words) :
        /\ probe.words[n].rect.right - probe.words[n].rect.left > 0
        /\ probe.words[n].rect.bottom - probe.words[n].rect.top > 0

----------------------------------------------------------------------------
(* Registry operations *)

\* the positions of the cards that do not carry the id
Others(hs, id) == {k \in Positions(hs) : hs[k].id # id}

\* C21: removeHighlight(id) deletes exactly the highlights with that id and
\* the id's entry of the index map; the remaining highlights are the same
\* records in the same relative order and the remaining entries are as they
\* were; nothing else changes.  Removing an id that is not (or no longer)
\* in the registry changes nothing.
C21_RemoveDeletesExactlyThatId ==
  [][lastEvent'.type = "remove" =>
       LET id   == lastEvent'.arg
           kept == Ascending(Others(highlights, id))
       IN  /\ Len(highlights') = Len(kept)
           /\ \A n \in Positions(kept) : highlights'[n] = highlights[kept[n]]
           /\ DOMAIN highlightedWordIndices' = DOMAIN highlightedWordIndices \ {id}
           /\ \A other \in DOMAIN highlightedWordIndices' :
                 highlightedWordIndices'[other] = highlightedWordIndices[other]
           /\ fetches' = fetches
           /\ GestureState' = GestureState
           /\ WithoutId(highlights', id) = highlights'
           /\ DeleteIndices(highlightedWordIndices', id) = highlightedWordIndices'
           /\ \A absent \in 0..now :
                 (\A k \in Positions(highlights) : highlights[k].id # absent) =>
                   /\ WithoutId(highlights, absent) = highlights
                   /\ absent \notin DOMAIN highlightedWordIndices =>
                        DeleteIndices(highlightedWordIndices, absent)
                          = highlightedWordIndices]_vars

\* a card was dismissed while another stays on the page as it was,
\* the dismissed card's request being still in flight
C21_Witness ==
  /\ lastEvent.type = "remove"
  /\ Len(highlights) >= 1
  /\ lastEvent.arg \in BagToSet(fetches)
  /\ \A k \in Positions(highlights) : highlights[k].id # lastEvent.arg

\* C22: once a highlight's loading flag is false, its loading flag and its
\* explanation stay as they are for as long as the highlight (the card with
\* that id and text) is in the registry.
C22_OutcomeIsFinal ==
  [][\A k \in Positions(highlights), j \in Positions(highlights') :
       (/\ highlights'[j].id = highlights[k].id
        /\ highlights'[j].text = highlights[k].text
        /\ ~highlights[k].loading) =>
         /\ ~highlights'[j].loading
         /\ highlights'[j].explanation = highlights[k].explanation]_vars

\* C23: a failed explanation fetch changes one highlight only, its own: that
\* highlight gets the error text as explanation and loading = false; every
\* other highlight, the index map and the gesture are as before, and only
\* the failed request leaves the set of requests in flight.
C23_FailureStaysOnItsCard ==
  [][lastEvent'.type = "explainfailed" =>
       LET changed == {k \in Positions(highlights) : highlights'[k] # highlights[k]}
       IN  /\ Len(highlights') = Len(highlights)
           /\ Cardinality(changed) <= 1
           /\ \A k \in changed :
                 /\ highlights[k].id = lastEvent'.arg
                 /\ highlights'[k] = [highlights[k] EXCEPT
                                        !.explanation = Some(ExplanationError),
                                        !.loading = FALSE]
           /\ highlightedWordIndices' = highlightedWordIndices
           /\ GestureState' = GestureState
           /\ fetches' (+) SetToBag({lastEvent'.arg}) = fetches]_vars

----------------------------------------------------------------------------
(* Visual line *)

\* a card as an accepted release makes it: pending, with a text, its first
\* word index and its own entry in the index map
FullyFormed(h, map) ==
  /\ h.loading /\ h.explanation = Null
  /\ Len(h.text) > 0
  /\ h.id \in DOMAIN map
  /\ Len(map[h.id]) > 0
  /\ h.firstWordIndex = Min({map[h.id][n] : n \in Positions(map[h.id])})

\* C24: in every state the visual line is there exactly when isDrawing is
\* true; every step that ends a drawing (a release, a reload in the middle
\* of a gesture) leaves no line, and the only cards it adds are the fully
\* formed card of an accepted release.
C24_LineIffDrawing ==
  [][/\ (line # Null) <=> isDrawing
     /\ (line' # Null) <=> isDrawing'
     /\ (isDrawing /\ ~isDrawing') =>
          /\ line' = Null
          /\ lastEvent'.type \in {"pointerup", "load"}
          /\ \A k \in NewCards(highlights, highlights') :
                /\ Released(lastEvent', "accepted")
                /\ FullyFormed(highlights'[k], highlightedWordIndices')
          /\ Cardinality(NewCards(highlights, highlights')) <= 1]_vars

\* a reload has interrupted a gesture: no line is left, nor any card
C24_Witness ==
  /\ lastEvent.type = "load"
  /\ lastEvent.branch = "armed"
  /\ line = Null
  /\ ~isDrawing
  /\ startXRef # Null
  /\ highlights = <<>>

----------------------------------------------------------------------------
(* Underlines *)

\* the word indices stored under an id, none if the id has no entry
IndicesOf(map, id) ==
  IF id \in DOMAIN map THEN {map[id][n] : n \in Positions(map[id])} ELSE {}

C26_UnderlinesAreTheHighlights ==
  LET ids == {highlights[k].id : k \in Positions(highlights)}
  IN  /\ DOMAIN highlightedWordIndices = ids
      /\ \A k \in Positions(highlights) :
            /\ IndicesOf(highlightedWordIndices, highlights[k].id) # {}
            /\ highlights[k].firstWordIndex =
                 Min(IndicesOf(highlightedWordIndices, highlights[k].id))
      /\ allHighlightedIndices =
           UNION {IndicesOf(highlightedWordIndices, id) : id \in ids}

----------------------------------------------------------------------------
(* Release *)

\* the positions of the words that pass the acceptance test for a span on a
\* line
OnSpan(words, startX, endX, lineY) ==
  LET lo == IF startX <= endX THEN startX ELSE endX
      hi == IF startX <= endX THEN endX ELSE startX
  IN  {k \in Positions(words) :
         /\ TwiceOffset(words[k], lineY) <= 2 * 15 * lineY[2]
         /\ words[k].rect.right >= lo
         /\ words[k].rect.left <= hi}

\* C27: a release resolves exactly the words that pass the acceptance test
\* in the layout as it is when the release is handled (the boxes at the
\* scroll offset of that moment), whatever the layout was at pointer-down.
C27_ResolvedInReleaseTimeLayout ==
  [][(lastEvent'.type = "pointerup" /\ isDrawing /\ line # Null) =>
       LET words  == getWordData(Elements(content, scrollTop))
           args   == Val(lastEvent'.resolver)
           picked == Ascending(OnSpan(words, args[1], args[2], args[3]))
       IN  /\ Len(intersecting') = Len(picked)
           /\ \A n \in Positions(picked) : intersecting'[n] = words[picked[n]]]_vars

\* armed on the first line of the unscrolled sample text (lineY 100.2), the
\* surface then scrolled by 30: the release has resolved "Fox" of the second
\* line, now at centre 100
C27_Witness ==
  /\ lastEvent.type = "pointerup"
  /\ lastEvent.resolver # Null
  /\ Val(lastEvent.resolver)[3] = <<501, 5>>
  /\ scrollTop = 30
  /\ Len(intersecting) = 1
  /\ intersecting[1].index = 6
  /\ intersecting[1].rect.top = 90

----------------------------------------------------------------------------
(* Interactivity while explanations are outstanding *)

\* a pointer-down that passes every guard of handlePointerDown
PassesGuards(pointerType, shiftKey, clientX, clientY) ==
  /\ pointerType = "pen" \/ (pointerType = "mouse" /\ ~shiftKey)
  /\ articleRect.left <= clientX /\ clientX <= articleRect.right
  /\ articleRect.top <= clientY /\ clientY <= articleRect.bottom
  /\ LineYOn[content][scrollTop][clientY] # Null

\* C28: with explanation fetches outstanding, however many, a pointer-down
\* whose guards pass arms, a release that resolves a text not yet in the
\* registry commits a new pending highlight and issues its fetch,
\* removeHighlight removes the card and its entry, and clearAll empties the
\* registry.
C28_NoGuardOnExplanationState ==
  /\ [](fetches # EmptyBag =>
          \A pointerType \in PointerTypes, shiftKey \in BOOLEAN,
             clientX \in PointerXs, clientY \in PointerYs :
            PassesGuards(pointerType, shiftKey, clientX, clientY) =>
              ENABLED (/\ handlePointerDown(pointerType, shiftKey, clientX, clientY)
                       /\ isDrawing' /\ line' # Null
                       /\ startXRef' = Some(clientX)
                       /\ lastEvent'.prevented))
  /\ [][fetches # EmptyBag =>
          /\ (/\ lastEvent'.type = "pointerup" /\ isDrawing /\ line # Null
              /\ Len(intersecting') > 0
              /\ \A k \in Positions(highlights) :
                    toLowerCase(highlights[k].text) # toLowerCase(TextOf(intersecting'))) =>
               /\ Len(highlights') = Len(highlights) + 1
               /\ \E k \in Positions(highlights') :
                     /\ highlights'[k].text = TextOf(intersecting')
                     /\ highlights'[k].loading
                     /\ fetches' = fetches (+) SetToBag({highlights'[k].id})
          /\ lastEvent'.type = "remove" =>
               /\ Len(highlights') < Len(highlights)
               /\ \A k \in Positions(highlights') : highlights'[k].id # lastEvent'.arg
               /\ lastEvent'.arg \notin DOMAIN highlightedWordIndices'
          /\ lastEvent'.type = "clear" =>
               /\ highlights' = <<>>
               /\ DOMAIN highlightedWordIndices' = {}]_vars

\* a release was accepted while the explanation of an earlier highlight was
\* still being fetched: two requests are in flight, both cards pending
C28_Witness ==
  /\ Released(lastEvent, "accepted")
  /\ BagCardinality(fetches) = 2
  /\ Len(highlights) = 2
  /\ \A k \in Positions(highlights) : highlights[k].loading
  /\ highlights[1].id # highlights[2].id

----------------------------------------------------------------------------
(* Explanations arrive *)

\* a highlight with the id is on show and still loading
Pending(id) ==
  \E k \in Positions(highlights) : highlights[k].id = id /\ highlights[k].loading

\* C29: if every explanation request is eventually answered or failed, a
\* committed highlight does not stay pending for ever: eventually its
\* loading flag is false or it has left the registry.
C29_PendingEnds ==
  \A id \in 0..MaxTime : Pending(id) ~> ~Pending(id)

\* the failure of its request has ended a highlight's pending state while
\* another highlight is still waiting for its explanation
C29_Witness ==
  /\ lastEvent.type = "explainfailed"
  /\ lastEvent.branch = "hit"
  /\ ~Pending(lastEvent.arg)
  /\ \E k \in Positions(highlights) :
        highlights[k].id = lastEvent.arg /\ ~highlights[k].loading
  /\ \E id \in 0..MaxTime : Pending(id)

----------------------------------------------------------------------------
(* What the resolver is given at release *)

\* C30: a release while armed calls the span resolver with the startX and
\* lineY locked by the pointer-down that armed the gesture and with the endX
\* of the latest pointer-move since (startX when there was none), never with
\* a coordinate of the pointer-up. Step by step: arming starts the line at
\* the locked startX; no step other than a pointer-move changes the locked
\* startX, the locked lineY or the line's endX while the gesture stays armed;
\* and the release hands exactly these three values to the resolver.
C30_ResolverGetsLockAndLatestMove ==
  [][/\ (~isDrawing /\ isDrawing') =>
          /\ startXRef' # Null /\ lineYRef' # Null
          /\ Val(line').endX = Val(startXRef')
     /\ (isDrawing /\ isDrawing' /\ lastEvent'.type # "pointermove") =>
          /\ startXRef' = startXRef
          /\ lineYRef' = lineYRef
          /\ Val(line').endX = Val(line).endX
     /\ (isDrawing /\ line # Null /\ lastEvent'.type = "pointerup") =>
          lastEvent'.resolver =
            Some(<<Val(startXRef), Val(line).endX, Val(lineYRef)>>)]_vars

----------------------------------------------------------------------------
(* Events outside a gesture *)

\* C31: a pointer-move or a pointer-up that arrives while no gesture is under
\* way changes nothing: the gesture state, the highlights, the
\* highlight-to-indices map, the fetches in flight, the document and the
\* scroll offset are as before, no word is resolved, preventDefault is not
\* called and the native selection is not cleared.
C31_IdleMoveAndUpDoNothing ==
  [][(~isDrawing /\ lastEvent'.type \in {"pointermove", "pointerup"}) =>
       /\ lastEvent'.branch = "idle"
       /\ GestureState' = GestureState
       /\ RegistryState' = RegistryState
       /\ content' = content /\ scrollTop' = scrollTop /\ now' = now
       /\ intersecting' = <<>>
       /\ lastEvent'.resolver = Null
       /\ ~lastEvent'.prevented
       /\ ~lastEvent'.clearedSelection]_vars

\* a pointer-up has arrived outside a gesture, with a card on the page whose
\* explanation is still being fetched
C31_Witness ==
  /\ lastEvent.type = "pointerup"
  /\ lastEvent.branch = "idle"
  /\ ~lastEvent.prevented /\ ~lastEvent.clearedSelection
  /\ ~isDrawing /\ line = Null
  /\ Len(highlights) > 0
  /\ fetches # EmptyBag

----------------------------------------------------------------------------
(* Direction of the sweep *)

\* C32: the span resolver is symmetric in its horizontal endpoints: on the
\* same snapshot and for the same lineY, the sweep from startX to endX
\* resolves the same words in the same order as the sweep from endX to
\* startX.
C32_SweepDirectionIsImmaterial ==
  SpanResolved =>
    probe.words =
      findIntersectingWords(probe.endX, probe.startX, Val(probe.lineY), probe.els)

\* a right-to-left sweep has resolved one of two words of the line: the
\* other one lies to the right of the span
C32_Witness ==
  /\ SpanResolved
  /\ probe.startX = 25 /\ probe.endX = 10
  /\ Len(probe.words) = 1
  /\ probe.words[1].rect.left = 10
  /\ \E k \in Positions(Snapshot) :
        /\ Snapshot[k].rect.left = 40
        /\ TwiceOffset(Snapshot[k], Val(probe.lineY)) = 0

----------------------------------------------------------------------------
(* The located line and the line test *)

\* the positions of a snapshot that fall into the bucket of a key
BucketIn(snap, key) == {k \in Positions(snap) : KeyOf(snap[k]) = key}

RECURSIVE SumRoundedIn(_, _)
SumRoundedIn(snap, S) ==
  IF S = {} THEN 0
  ELSE LET k == CHOOSE j \in S : TRUE
       IN  Rounded(snap[k]) + SumRoundedIn(snap, S \ {k})

\* the key of the bucket of a snapshot whose mean rounded centre is lineY
ChosenIn(snap, lineY) ==
  CHOOSE key \in {KeyOf(snap[k]) : k \in Positions(snap)} :
    LET bucket == BucketIn(snap, key)
    IN  lineY[1] * Cardinality(bucket) = SumRoundedIn(snap, bucket) * lineY[2]

\* C33: on a layout that is the same at pointer-down and at release, every
\* word of the bucket findLineY chose is within 15 of the lineY it returned,
\* so the release resolves every word of that bucket whose box overlaps the
\* span horizontally.
C33_WholeLineWithinTolerance ==
  (probe.stage \in {"located", "resolved"} /\ probe.lineY # Null) =>
    LET snap  == Snapshot
        lineY == Val(probe.lineY)
        lo    == Min({probe.startX, probe.endX})
        hi    == -Min({-probe.startX, -probe.endX})
    IN  \A k \in BucketIn(snap, ChosenIn(snap, lineY)) :
          /\ TwiceOffset(snap[k], lineY) <= 2 * 15 * lineY[2]
          /\ (SpanResolved /\ snap[k].rect.right >= lo /\ snap[k].rect.left <= hi) =>
               \E n \in Positions(probe.words) : probe.words[n] = snap[k]

\* the chosen bucket holds words with centres 94.5, 95 and 104, whose lineY
\* is 98: the word at 104 is 6 away, and all three were resolved
C33_Witness ==
  /\ SpanResolved
  /\ Len(Snapshot) = 3
  /\ Cardinality(Bucket(Chosen)) = 3
  /\ Len(probe.words) = 3
  /\ Val(probe.lineY) = <<98, 1>>
  /\ \E k \in Bucket(Chosen) :
        TwiceOffset(Snapshot[k], Val(probe.lineY)) = 12

----------------------------------------------------------------------------
(* Which lines a release can take words from *)

\* C34: on a layout that is the same at pointer-down and at release,
\* every word the release resolves belongs to the bucket whose
\* representative Y was locked at pointer-down: no word of another bucket
\* is resolved.
C34_OnlyTheLockedBucket ==
  SpanResolved =>
    LET chosen == ChosenIn(Snapshot, Val(probe.lineY))
    IN  \A n \in Positions(probe.words) : KeyOf(probe.words[n]) = chosen

\* C34, amended: every word the release resolves has its centre within 15
\* of the locked representative Y; it is of the locked bucket or of a
\* bucket whose key is at most 20 away from the locked bucket's, and no
\* other word is resolved.
C34_OnlyWithin15OfTheLockedLine ==
  SpanResolved =>
    LET snap   == Snapshot
        lineY  == Val(probe.lineY)
        chosen == ChosenIn(snap, lineY)
    IN  \A n \in Positions(probe.words) :
          /\ TwiceOffset(probe.words[n], lineY) <= 2 * 15 * lineY[2]
          /\ Abs(KeyOf(probe.words[n]) - chosen) <= 20
          /\ \E k \in Positions(snap) : snap[k] = probe.words[n]

\* the pointer went down on the line with centre 100 (bucket 100) and the
\* release resolved a word of that line together with a word with centre
\* 115 (bucket 120), while the word of the line above the viewport was left
\* out
C34_Witness ==
  /\ SpanResolved
  /\ Len(Snapshot) = 3
  /\ Len(probe.words) = 2
  /\ Chosen = 100
  /\ Val(probe.lineY) = <<100, 1>>
  /\ \E n \in Positions(probe.words) : KeyOf(probe.words[n]) = 100
  /\ \E n \in Positions(probe.words) : KeyOf(probe.words[n]) = 120
  /\ \E k \in Positions(Snapshot) : KeyOf(Snapshot[k]) = -20

----------------------------------------------------------------------------
(* Where a new highlight goes *)

\* C35: a newly accepted highlight is placed behind every existing
\* highlight with a smaller firstWordIndex and before every existing
\* highlight with the same or a greater one, so that among equal keys the
\* most recently committed comes first; the existing highlights keep their
\* relative order.
C35_NewestFirstAmongEqualKeys ==
  probe.stage = "added" =>
    LET prev == probe.prev
        new  == probe.newHighlight
        upd  == probe.updated
    IN  /\ Len(upd) = Len(prev) + 1
        /\ \E p \in Positions(upd) :
              /\ upd[p] = new
              /\ \A j \in Positions(upd) :
                    /\ j < p => /\ upd[j] = prev[j]
                                /\ prev[j].firstWordIndex < new.firstWordIndex
                    /\ j > p => /\ upd[j] = prev[j - 1]
                                /\ prev[j - 1].firstWordIndex >= new.firstWordIndex

\* the new highlight stands between a highlight with a smaller key and two
\* older highlights with its own key
C35_Witness ==
  /\ probe.stage = "added"
  /\ Len(probe.updated) = 4
  /\ probe.updated[2] = probe.newHighlight
  /\ probe.updated[1].firstWordIndex < probe.newHighlight.firstWordIndex
  /\ probe.updated[3].firstWordIndex = probe.newHighlight.firstWordIndex
  /\ probe.updated[4].firstWordIndex = probe.newHighlight.firstWordIndex
  /\ probe.updated[3] = probe.prev[2] /\ probe.updated[4] = probe.prev[3]

----------------------------------------------------------------------------
(* A URL that cannot be loaded *)

\* C36: a fetchUrl that fails (the URL does not parse, the response is not
\* OK, it has no readable content, or the request itself fails) leaves the
\* document on screen, the highlights list and the highlight-to-indices map
\* as they are, sets contentError and ends with contentLoading false; and
\* contentLoading is true only while a URL fetch is in flight.
C36_FailedFetchUrlKeepsTheDocument ==
  /\ [](contentLoading => urlFetches > 0)
  /\ [][(\/ lastEvent'.type = "fetchurl" /\ lastEvent'.branch = "invalid"
         \/ lastEvent'.type = "urlsettled" /\ lastEvent'.branch = "failed") =>
          /\ content' = content
          /\ highlights' = highlights
          /\ highlightedWordIndices' = highlightedWordIndices
          /\ contentError' # Null
          /\ ~contentLoading'
          /\ urlFetches' = 0]_vars

\* a second URL was asked for while reading a document loaded from a URL,
\* with a highlight made on it: the answer had no readable content, and the
\* document and the highlight are still there
C36_Witness ==
  /\ lastEvent.type = "urlsettled"
  /\ lastEvent.branch = "failed"
  /\ contentError = Some("No readable content found at this URL")
  /\ ~contentLoading
  /\ urlFetches = 0
  /\ content = UrlContent
  /\ Len(highlights) > 0
  /\ DOMAIN highlightedWordIndices # {}

====
